---- MODULE Spec2Model ----
(***************************************************************************)
(* gpcache: a gateway in front of a remote satellite-tracking service.     *)
(*   SpaceTrackClient   (api.rs)           authenticated session, query    *)
(*   PerturbationCache  (perturbation.rs)  4-hour cache of per-object data *)
(*   SatelliteDatabase  (satellites.rs)    catalog snapshot and search     *)
(* Request-handling tasks call into the three components concurrently.     *)
(* Every remote call (an .await on the HTTP client) is a suspension point: *)
(* a task's pc / qpc names the await it is suspended at, and one action    *)
(* runs the code from the completion of that await to the next one.        *)
(***************************************************************************)
EXTENDS Integers, Sequences, FiniteSets, TLC

(***************************************************************************)
(* Bounds of the model.                                                    *)
(***************************************************************************)
\* number of concurrent request-handling tasks
NumTasks == 2
\* number of calls (get_or_fetch, update, search) the tasks make in all
MaxCalls == 3
\* number of times the clock advances
MaxTicks == 1
\* number of objects of the large catalog the search is evaluated on
CatalogSize == 24

Tasks == 1..NumTasks
\* versions of an object's payload the remote service can serve
Versions == {1, 2}
\* object identifiers requested from the cache
Ids == {25544, 43013}
\* amounts (seconds) by which the clock advances: one tick reaches each of
\* the two thresholds exactly (300 s, 14400 s), two ticks pass them
TickSteps == {300, 14400}

(***************************************************************************)
(* Program constants.                                                      *)
(***************************************************************************)
\* perturbation.rs:8  const MAX_AGE: Duration = Duration::from_secs(60 * 60 * 4)
MAX_AGE == 60 * 60 * 4
\* api.rs:40  Duration::from_secs(300)
REAUTH_SECS == 300
\* api.rs:62  StatusCode::UNAUTHORIZED
UNAUTHORIZED == 401

VARIABLES
    \* ---- environment
    now,            \* the monotonic clock (Instant::now()), in seconds since from_env began
    ticks,          \* how many times the clock advanced
    sessionValid,   \* remote side: the session cookie is accepted
    credsValid,     \* remote side: the configured credentials are accepted
    \* ---- SpaceTrackClient
    client,         \* "unbuilt" | "auth" (from_env awaiting its handshake) | "ready" | "failed"
    last_auth,      \* SpaceTrackClient.last_auth
    lastHsSent,     \* history: instant at which the latest successful handshake was sent
    built,          \* the Result that from_env returned
    \* ---- PerturbationCache
    entries,        \* PerturbationCache.entries: id -> [fetch_time, data]
    mutex,          \* task holding the Mutex of PerturbationCache.entries, 0 if none
    \* ---- SatelliteDatabase
    sat_entries,    \* SatelliteDatabase.entries: id -> Satellite
    readers,        \* tasks holding the RwLock for reading
    writer,         \* task holding the RwLock for writing, 0 if none
    published,      \* history: every map ever assigned to sat_entries
    fuzzy,          \* the scores best_match gives: <<query, name>> -> Option<score>
    \* ---- request-handling tasks
    calls,          \* how many calls the tasks have made
    held,           \* history: the map a searching task found when it took the read lock
    pc,             \* where the task's operation is suspended
    op,             \* the operation the task performs
    arg,            \* get_or_fetch: the id
    qpc,            \* where the task's query() is suspended
    sends,          \* GET requests sent so far by the task's latest query()
    handshakes,     \* POSTs to the login endpoint sent so far by that query()
    hsSent,         \* instant at which the task's pending handshake was sent
    fetches,        \* calls of PerturbationCache::fetch made by the task
    sawExpire,      \* history: the remote session expired again after the task's
                    \* query() had its first attempt answered 401
    ret,            \* the result the operation returned
    query,          \* search: the query text
    allowed,        \* search: allowed_types
    matches,        \* search: the Vec<SearchResult> collected so far
    seen,           \* search: what the values() iterator has yielded so far, by key
    found,          \* search: the Vec<Satellite> returned
    satellites      \* update: the Vec<Satellite> that fetch returned

envVars    == <<now, ticks, sessionValid, credsValid>>
clientVars == <<client, last_auth, lastHsSent, built>>
catVars    == <<sat_entries, readers, writer, published, fuzzy>>
queryVars  == <<qpc, sends, handshakes, hsSent, sawExpire>>
dbTaskVars == <<query, allowed, matches, seen, found, satellites>>
taskVars   == <<pc, op, arg, fetches, ret>>
histVars   == <<calls, held>>
cacheVars  == <<entries, mutex>>
vars == <<envVars, clientVars, cacheVars, catVars, queryVars, dbTaskVars, taskVars, histVars>>

(***************************************************************************)
(* Results: Result<T, reqwest::Error>.  A reqwest::Error carries its kind  *)
(* (transport, status, body, decode), the status code and the URL.         *)
(***************************************************************************)
EmptyMap == [k \in {} |-> 0]
NoData == [id |-> 0, ver |-> 0]
Ok(d) == [ok |-> TRUE, kind |-> "none", code |-> 0, url |-> "none", data |-> d]
Err(kind, code, url) == [ok |-> FALSE, kind |-> kind, code |-> code, url |-> url, data |-> NoData]
NoRet == [ok |-> FALSE, kind |-> "pending", code |-> 0, url |-> "none", data |-> NoData]

(***************************************************************************)
(* The remote service and the clock.                                       *)
(***************************************************************************)
\* what `client.get(&url).send().await` can yield: a transport failure, or a
\* response whose status is 401 exactly when the session is not valid
SendGet ==
    {[transport |-> TRUE, status |-> 0]} \cup
    {[transport |-> FALSE, status |-> s] :
        s \in (IF sessionValid THEN {200, 500} ELSE {UNAUTHORIZED})}

\* what `client.post(URL_AUTH).form(&params).send().await` can yield
SendPost ==
    {[transport |-> TRUE, status |-> 0]} \cup
    {[transport |-> FALSE, status |-> s] :
        s \in (IF credsValid THEN {200} ELSE {UNAUTHORIZED})}

\* Response::error_for_status: client and server error statuses become errors
error_for_status(response, url) ==
    IF response.status >= 400 /\ response.status < 600
        THEN Err("status", response.status, url)
        ELSE Ok(NoData)

\* `send().await?.error_for_status()`
SendResult(response, url) ==
    IF response.transport THEN Err("transport", 0, url)
                          ELSE error_for_status(response, url)

\* time passes
Tick ==
    /\ client # "unbuilt"
    /\ ticks < MaxTicks
    /\ \E d \in TickSteps : now' = now + d
    /\ ticks' = ticks + 1
    /\ UNCHANGED <<histVars, sessionValid, credsValid, clientVars, cacheVars, catVars,
                   queryVars, dbTaskVars, taskVars>>

\* the remote service drops the session
Expire ==
    /\ sessionValid
    /\ sessionValid' = FALSE
    /\ sawExpire' = [t \in Tasks |-> sawExpire[t] \/ qpc[t] \in {"reauth", "send2"}]
    /\ UNCHANGED <<histVars, now, ticks, credsValid, clientVars, cacheVars, catVars,
                   qpc, sends, handshakes, hsSent, dbTaskVars, taskVars>>

(***************************************************************************)
(* SpaceTrackClient                                                        *)
(***************************************************************************)
\* api.rs:40  the guard under which reauth returns without a handshake
reauth_skipped(force, elapsed) == elapsed > REAUTH_SECS /\ ~force

\* from_env up to the await of its handshake: last_auth is Instant::now(),
\* then reauth(true)
FromEnv ==
    /\ client = "unbuilt"
    /\ last_auth' = now
    /\ client' = IF reauth_skipped(TRUE, 0) THEN "ready" ELSE "auth"
    /\ UNCHANGED <<histVars, envVars, lastHsSent, built, cacheVars, catVars, queryVars,
                   dbTaskVars, taskVars>>

\* a plausible slip: the result of the first handshake is dropped
\* (`let _ = instance.reauth(true).await;`)
AfterConstruct_ErrorIgnored(res) == "ready"

\* api.rs:34-36  `instance.reauth(true).await?; Ok(instance)`: what becomes of
\* the client once the handshake gave res
AfterConstruct(res) == IF res.ok THEN "ready" ELSE "failed"

\* from_env: the handshake completes; `?` on failure, Ok(instance) otherwise
FromEnvHandshake ==
    /\ client = "auth"
    /\ \E response \in SendPost :
        LET res == SendResult(response, "login") IN
        /\ client' = AfterConstruct(res)
        /\ built' = IF AfterConstruct(res) = "ready" THEN Ok(NoData) ELSE res
        /\ IF res.ok
              THEN /\ sessionValid' = TRUE
                   /\ lastHsSent' = last_auth
              ELSE UNCHANGED <<sessionValid, lastHsSent>>
    /\ UNCHANGED <<histVars, now, ticks, credsValid, last_auth, cacheVars, catVars,
                   queryVars, dbTaskVars, taskVars>>

(***************************************************************************)
(* PerturbationCache helpers                                               *)
(***************************************************************************)
\* plausible slips in the freshness guard
Fresh_Inverted(fetch_time) == now - fetch_time > MAX_AGE
Fresh_Inclusive(fetch_time) == now - fetch_time <= MAX_AGE

\* perturbation.rs:34  fetch_time.elapsed() < MAX_AGE
Fresh(fetch_time) == now - fetch_time < MAX_AGE

\* perturbation.rs:26-34  the entry exists and passes the guard of the first arm
CacheHit(id) == id \in DOMAIN entries /\ Fresh(entries[id].fetch_time)

\* HashMap::insert
Insert(m, id, e) == [k \in DOMAIN m \cup {id} |-> IF k = id THEN e ELSE m[k]]

\* a plausible slip: the lookup is the scrutinee of the `match`, so that its
\* MutexGuard lives until the end of the match, fetch included
GuardDuringFetch_HeldByMatch(t) == t

\* perturbation.rs:26-31  the task that holds the cache mutex while the call of
\* task t awaits fetch: the guard is a temporary of the `let` statement and is
\* dropped at its end, so nobody (0)
GuardDuringFetch(t) == 0

\* a plausible slip: an entry found stale is removed before it is fetched again
AfterLookup_EvictStale(m, id) ==
    IF id \in DOMAIN m /\ ~Fresh(m[id].fetch_time)
        THEN [k \in DOMAIN m \ {id} |-> m[k]]
        ELSE m

\* perturbation.rs:26-31  the lookup is `.get(&id).cloned()`: the map after it
AfterLookup(m, id) == m

\* a plausible slip: an entry that exists has its payload replaced and keeps
\* its timestamp
AfterFetch_TornWrite(m, id, res) ==
    IF res.ok
        THEN Insert(m, id, [fetch_time |-> IF id \in DOMAIN m THEN m[id].fetch_time ELSE now,
                            data |-> res.data])
        ELSE m

\* a plausible slip: a failed fetch drops the entry it could not renew
AfterFetch_EvictOnError(m, id, res) ==
    IF res.ok THEN Insert(m, id, [fetch_time |-> now, data |-> res.data])
              ELSE [k \in DOMAIN m \ {id} |-> m[k]]

\* perturbation.rs:36-41  `let data = self.fetch(&id).await?;` then insert
\* (id, (Instant::now(), data)): the map after fetch gave res
AfterFetch(m, id, res) ==
    IF res.ok THEN Insert(m, id, [fetch_time |-> now, data |-> res.data])
              ELSE m

(***************************************************************************)
(* SatelliteDatabase helpers                                               *)
(***************************************************************************)
\* satellites.rs:95  `query.len() <= 3`
SHORT_QUERY == 3
\* satellites.rs:141  `matches.truncate(20)`
LIMIT == 20

\* Text is a sequence of characters: an ASCII character is the one-character
\* string, any other character is written by its code point ("U+00E9").
\* The number of bytes of the character's UTF-8 encoding.
Utf8Len(c) ==
    CASE c = "U+00E9" -> 2
      [] c = "U+661F" -> 3
      [] OTHER -> 1

\* satellites.rs:95  str::len(): the length of the text in bytes
RECURSIVE StrLen(_)
StrLen(s) == IF s = <<>> THEN 0 ELSE Utf8Len(Head(s)) + StrLen(Tail(s))

Digit(c) ==
    CASE c = "0" -> 0 [] c = "1" -> 1 [] c = "2" -> 2 [] c = "3" -> 3 [] c = "4" -> 4
      [] c = "5" -> 5 [] c = "6" -> 6 [] c = "7" -> 7 [] c = "8" -> 8 [] c = "9" -> 9
      [] OTHER -> -1

\* the digits of s read as a decimal number, -1 if one of them is no digit
\* (the texts of the model are too short to overflow a usize)
RECURSIVE ParseDigits(_, _)
ParseDigits(s, acc) ==
    IF s = <<>> THEN acc
    ELSE IF Digit(Head(s)) < 0 THEN -1
    ELSE ParseDigits(Tail(s), acc * 10 + Digit(Head(s)))

\* str::parse::<usize>: an optional "+" and at least one digit; -1 stands for Err
ParseUsize(s) ==
    IF s = <<>> THEN -1
    ELSE IF Head(s) = "+" THEN (IF Tail(s) = <<>> THEN -1 ELSE ParseDigits(Tail(s), 0))
    ELSE ParseDigits(s, 0)

\* satellites.rs:151-168  a number, or a string holding one; -1 stands for Err
deserialize_number_from_string(w) ==
    IF w.quoted THEN ParseUsize(w.text)
                ELSE (IF w.text = <<>> THEN -1 ELSE ParseDigits(w.text, 0))

\* satellites.rs:170-190  Deserialize for ObjectType
DeserializeObjectType(string) ==
    CASE string = "ROCKET BODY" -> "RocketBody"
      [] string = "PAYLOAD" -> "Payload"
      [] string = "DEBRIS" -> "Debris"
      [] string = "UNKNOWN" -> "Unknown"
      [] OTHER -> "Unknown"

ObjectTypes == {"RocketBody", "Payload", "Debris", "Unknown"}

\* satellites.rs:36-56  Deserialize for Satellite, of one JSON object
DeserializeSatellite(w) ==
    LET id == deserialize_number_from_string(w.NORAD_CAT_ID) IN
    [ok |-> id >= 0,
     sat |-> [id |-> id,
              object_type |-> DeserializeObjectType(w.OBJECT_TYPE),
              object_name |-> w.OBJECT_NAME]]

\* satellites.rs:146-148  `.json().await` into Vec<Satellite>: one object that
\* does not deserialize fails the whole array
DeserializeCatalog(wire) ==
    IF \E i \in DOMAIN wire : ~DeserializeSatellite(wire[i]).ok
        THEN [ok |-> FALSE, sats |-> <<>>]
        ELSE [ok |-> TRUE, sats |-> [i \in DOMAIN wire |-> DeserializeSatellite(wire[i]).sat]]

\* satellites.rs:86  satellites.into_iter().map(|s| (s.id.clone(), s)).collect():
\* of two objects with one id the later one stays
Collect(sats) ==
    [k \in {sats[i].id : i \in DOMAIN sats} |->
        LET last == CHOOSE i \in DOMAIN sats :
                        /\ sats[i].id = k
                        /\ \A j \in DOMAIN sats : sats[j].id = k => j <= i
        IN sats[last]]

\* a plausible slip: the map is replaced without waiting for the readers
CanWrite_NoExclusion == TRUE

\* RwLock::write (satellites.rs:85) is granted when nobody holds the lock
CanWrite == writer = 0 /\ readers = {}

\* RwLock::read (satellites.rs:99) is granted when no writer holds the lock
CanRead == writer = 0

\* satellites.rs:117  sublime_fuzzy::best_match(query, name): Option<Match>,
\* a fixed function of (query, name) given by the table fuzzy
best_match(q, name) == fuzzy[<<q, name>>]

\* a plausible slip: matches with a negative score are kept
PassesFilter_KeepNegative(s, q, al) ==
    /\ s.object_type \in al
    /\ best_match(q, s.object_name).some

\* satellites.rs:115-132  the two filters of the fuzzy path
PassesFilter(s, q, al) ==
    /\ s.object_type \in al
    /\ best_match(q, s.object_name).some
    /\ ~(best_match(q, s.object_name).score < 0)

\* x put behind every element of the sequence whose score is not smaller
RECURSIVE InsertDesc(_, _)
InsertDesc(x, sorted) ==
    IF sorted = <<>> THEN <<x>>
    ELSE IF Head(sorted).score >= x.score
        THEN <<Head(sorted)>> \o InsertDesc(x, Tail(sorted))
        ELSE <<x>> \o sorted

\* satellites.rs:138  sort_by_key(|r| Reverse(r.score)), a stable sort: equal
\* scores keep their order
RECURSIVE SortDescInto(_, _)
SortDescInto(todo, sorted) ==
    IF todo = <<>> THEN sorted
    ELSE SortDescInto(Tail(todo), InsertDesc(Head(todo), sorted))

\* the elements of the Vec ms
Elements(ms) == {ms[i] : i \in DOMAIN ms}

Reversed(s) == [i \in DOMAIN s |-> s[Len(s) + 1 - i]]

\* satellites.rs:137  sort_unstable_by_key(|r| Reverse(r.satellite.id)) of a Vec
\* whose elements are E, in whatever order it holds them: the ids of one map
\* are distinct, so the sorted Vec is the one arrangement of E with the ids
\* descending
RECURSIVE SortedById(_)
SortedById(E) ==
    IF E = {} THEN <<>>
    ELSE LET x == CHOOSE x \in E : \A y \in E : y.satellite.id <= x.satellite.id
         IN <<x>> \o SortedById(E \ {x})

\* a plausible slip: only the sort by score, ties left as the Vec held them
\* (here: a Vec that came out of the map with the ids ascending)
Rank_ScoreOnly(E) ==
    LET byScore == SortDescInto(Reversed(SortedById(E)), <<>>)
        top == SubSeq(byScore, 1, IF Len(byScore) < LIMIT THEN Len(byScore) ELSE LIMIT)
    IN [i \in DOMAIN top |-> top[i].satellite]

\* a plausible slip: the list is cut to LIMIT before it is sorted (here: a
\* Vec that came out of the map with the ids ascending)
Rank_TruncateFirst(E) ==
    LET vec == Reversed(SortedById(E))
        cut == SubSeq(vec, 1, IF Len(vec) < LIMIT THEN Len(vec) ELSE LIMIT)
        byId == SortedById(Elements(cut))
        byScore == SortDescInto(byId, <<>>)
    IN [i \in DOMAIN byScore |-> byScore[i].satellite]

\* satellites.rs:137-143  the Vec with the elements E is sorted by id, then
\* stably by score, truncated and unwrapped
Rank(E) ==
    LET byId == SortedById(E)
        byScore == SortDescInto(byId, <<>>)
        top == SubSeq(byScore, 1, IF Len(byScore) < LIMIT THEN Len(byScore) ELSE LIMIT)
    IN [i \in DOMAIN top |-> top[i].satellite]

\* satellites.rs:113-133  the elements of the Vec<SearchResult> collected from
\* m.values(): the HashMap yields its values in an order it does not specify,
\* and the Vec holds those that pass the filters in that order
Matches(m, q, al) ==
    {[score |-> best_match(q, m[k].object_name).score, satellite |-> m[k]] :
        k \in {x \in DOMAIN m : PassesFilter(m[x], q, al)}}

\* a plausible slip: the exact-id path honours the type filter like the fuzzy path
search_FilteredFastPath(m, q, al) ==
    IF StrLen(q) <= SHORT_QUERY THEN <<>>
    ELSE IF /\ ParseUsize(q) >= 0 /\ ParseUsize(q) \in DOMAIN m
            /\ m[ParseUsize(q)].object_type \in al
        THEN <<m[ParseUsize(q)]>>
        ELSE Rank(Matches(m, q, al))

\* satellites.rs:93-144  search, evaluated on the map m it finds under the read
\* lock
search(m, q, al) ==
    IF StrLen(q) <= SHORT_QUERY THEN <<>>
    ELSE IF ParseUsize(q) >= 0 /\ ParseUsize(q) \in DOMAIN m
        THEN <<m[ParseUsize(q)]>>
        ELSE Rank(Matches(m, q, al))

(***************************************************************************)
(* Inputs of the catalog model: payloads the remote service serves for the *)
(* catalog URL, queries, allowed types and score tables.                   *)
(***************************************************************************)
Num(text) == [quoted |-> FALSE, text |-> text]
Str(text) == [quoted |-> TRUE, text |-> text]
Obj(id, type, name) == [NORAD_CAT_ID |-> id, OBJECT_TYPE |-> type, OBJECT_NAME |-> name]

T25544 == <<"2", "5", "5", "4", "4">>
T43013 == <<"4", "3", "0", "1", "3">>

CatalogA == << Obj(Num(T25544), "PAYLOAD", "ISS (ZARYA)"),
               Obj(Num(T43013), "DEBRIS", "ISS DEB") >>
CatalogB == << Obj(Str(T25544), "ROCKET BODY", "SL-4 R/B"),
               Obj(Str(T43013), "UNKNOWN_FUTURE_TYPE", "FENGYUN 1C DEB") >>
\* the second object has no numeric identifier
CatalogBad == << Obj(Num(T25544), "PAYLOAD", "ISS (ZARYA)"),
                 Obj(Str(<<"N", "/", "A">>), "DEBRIS", "ISS DEB") >>
WireCatalogs == {CatalogA, CatalogB, CatalogBad}

Names == {"ISS (ZARYA)", "ISS DEB", "SL-4 R/B", "FENGYUN 1C DEB"}

QShort == <<"i", "s", "s">>
QFuzzy == <<"i", "s", "s", " ", "d">>
Queries == {QShort, T25544, QFuzzy}
AllowedSets == {ObjectTypes, {"Payload"}}

None == [some |-> FALSE, score |-> 0]
Some(n) == [some |-> TRUE, score |-> n]

\* the scores of the model: a tie, a name that does not match, a negative score
FuzzyA ==
    [p \in {T25544, QFuzzy} \X Names |->
        IF p[1] # QFuzzy THEN None
        ELSE CASE p[2] = "ISS (ZARYA)" -> Some(72)
               [] p[2] = "ISS DEB" -> Some(72)
               [] p[2] = "SL-4 R/B" -> None
               [] OTHER -> Some(-8)]

(***************************************************************************)
(* Inputs of the search model: catalogs with a short identifier, a name    *)
(* outside ASCII, tied scores and more objects than LIMIT; queries on both *)
(* sides of the length guard; and three scoring functions.                 *)
(***************************************************************************)
DigitChars == <<"0", "1", "2", "3", "4", "5", "6", "7", "8", "9">>

\* the decimal digits of n, as the remote service writes an identifier
RECURSIVE DigitsOf(_)
DigitsOf(n) ==
    IF n < 10 THEN <<DigitChars[n + 1]>>
              ELSE Append(DigitsOf(n \div 10), DigitChars[(n % 10) + 1])

AccentName == "U+00E9U+00E9 SAT"
CatalogC == << Obj(Num(<<"5">>), "PAYLOAD", "VANGUARD 1"),
               Obj(Str(DigitsOf(22675)), "DEBRIS", "COSMOS 2251 DEB"),
               Obj(Num(DigitsOf(90001)), "UNKNOWN", AccentName) >>

\* the large catalog: identifiers 1001, 1002, ..., every sixth object debris
BigIds == {1000 + i : i \in 1..CatalogSize}
BigName(id) == "STARLINK-" \o ToString(id)
CatalogBig ==
    [i \in 1..CatalogSize |->
        Obj(Num(DigitsOf(1000 + i)), IF i % 6 = 0 THEN "DEBRIS" ELSE "PAYLOAD", BigName(1000 + i))]
BigIdOf(name) == CHOOSE id \in BigIds : BigName(id) = name

\* a catalog whose names score in ties: identifiers 2001 to 2004, all
\* payloads
MidIds == {2000 + i : i \in 1..4}
MidName(id) == "NOAA-" \o ToString(id)
CatalogMid == [i \in 1..4 |-> Obj(Num(DigitsOf(2000 + i)), "PAYLOAD", MidName(2000 + i))]
MidIdOf(name) == CHOOSE id \in MidIds : MidName(id) = name

SmallNames == Names \cup {"VANGUARD 1", "COSMOS 2251 DEB", AccentName}
                    \cup {MidName(id) : id \in MidIds}
SearchNames == SmallNames \cup {BigName(id) : id \in BigIds}

QEmpty == <<>>
Q5 == <<"5">>
Q0005 == <<"0", "0", "0", "5">>
Q2251 == <<"2", "2", "5", "1">>
\* two characters, four bytes
QAccent == <<"U+00E9", "U+00E9">>
QStar == <<"s", "t", "a", "r">>
\* the identifier of a debris object of the large catalog
Q1006 == DigitsOf(1006)
SearchQueries == {QEmpty, Q5, QShort, QAccent, Q0005, Q2251, Q1006, T25544, QFuzzy, QStar}
SearchAllowed == {ObjectTypes, {"Payload"}, {}}
\* the callers of search: search is a function of the map, the query and the
\* allowed types, and two callers are what it takes to compare two evaluations
SearchTasks == {1, 2}

\* scores of the names of the small catalogs, the same under the three
\* scoring functions
SmallScore(q, name) ==
    CASE q \in {QShort, QFuzzy} /\ name \in {"ISS (ZARYA)", "ISS DEB"} -> Some(72)
      [] q = QFuzzy /\ name = "FENGYUN 1C DEB" -> Some(-8)
      [] q = Q5 /\ name = "COSMOS 2251 DEB" -> Some(16)
      [] q = Q2251 /\ name = "COSMOS 2251 DEB" -> Some(64)
      [] q = QAccent /\ name = AccentName -> Some(32)
      [] q = QStar /\ name = "VANGUARD 1" -> Some(0)
      [] q = QStar /\ name \in {MidName(id) : id \in MidIds} -> Some(20 * (MidIdOf(name) % 2))
      [] OTHER -> None

\* every name of the large catalog scores the same
ScoreTie(q, name) ==
    IF name \in SmallNames
        THEN SmallScore(q, name)
        ELSE IF q = QStar THEN Some(48) ELSE None

\* negative scores, names that do not match, a zero score and ties
ScoreMixed(q, name) ==
    IF name \in SmallNames
        THEN SmallScore(q, name)
        ELSE IF q # QStar THEN None
        ELSE LET id == BigIdOf(name) IN
             CASE id % 4 = 0 -> Some(-10)
               [] id % 4 = 1 -> None
               [] OTHER -> Some(10 * (id % 3))

\* the score falls as the identifier grows
ScoreFalling(q, name) ==
    IF name \in SmallNames
        THEN SmallScore(q, name)
        ELSE IF q = QStar THEN Some(3000 - BigIdOf(name)) ELSE None

FuzzyTie == [p \in SearchQueries \X SearchNames |-> ScoreTie(p[1], p[2])]
FuzzyMixed == [p \in SearchQueries \X SearchNames |-> ScoreMixed(p[1], p[2])]
FuzzyFalling == [p \in SearchQueries \X SearchNames |-> ScoreFalling(p[1], p[2])]

\* the catalogs searched, each with the scoring functions that tell its names
\* apart: the names of the small catalogs score the same under all three
SearchInputs ==
    {[wire |-> <<>>, table |-> FuzzyTie],
     [wire |-> CatalogA, table |-> FuzzyTie],
     [wire |-> CatalogC, table |-> FuzzyTie],
     [wire |-> CatalogMid, table |-> FuzzyTie],
     [wire |-> CatalogBig, table |-> FuzzyTie],
     [wire |-> CatalogBig, table |-> FuzzyMixed],
     [wire |-> CatalogBig, table |-> FuzzyFalling]}

\* a plausible slip: a failed catalog fetch is replaced by an empty list
\* (unwrap_or_default) and ingested
AfterCatalogFetch_Defaulted(r) == "ingest"

\* satellites.rs:81  `let satellites = self.fetch().await?;`: where update
\* goes once fetch gave r
AfterCatalogFetch(r) == IF r.ok THEN "ingest" ELSE "done"

(***************************************************************************)
(* SpaceTrackClient::query, as run by task t on behalf of its operation.   *)
(***************************************************************************)
\* query is entered: the first GET is sent
QueryCall(t) ==
    /\ qpc' = [qpc EXCEPT ![t] = "send1"]
    /\ sends' = [sends EXCEPT ![t] = 1]
    /\ handshakes' = [handshakes EXCEPT ![t] = 0]
    /\ sawExpire' = [sawExpire EXCEPT ![t] = FALSE]
    /\ UNCHANGED hsSent

\* query returns res; its caller (fetch / update) runs on to its next await:
\* an error is propagated by `?` up to the operation's caller, a response is
\* handed to .text() / .json()
QueryFinish(t, res) ==
    /\ qpc' = [qpc EXCEPT ![t] = "none"]
    /\ UNCHANGED sends
    /\ handshakes' = [handshakes EXCEPT ![t] = 0]
    /\ IF op[t] = "get"
          THEN /\ pc' = [pc EXCEPT ![t] = IF res.ok THEN "text" ELSE "done"]
               /\ ret' = IF res.ok THEN ret ELSE [ret EXCEPT ![t] = res]
               /\ entries' = IF res.ok THEN entries ELSE AfterFetch(entries, arg[t], res)
               /\ mutex' = IF ~res.ok /\ mutex = t THEN 0 ELSE mutex
          ELSE /\ pc' = [pc EXCEPT ![t] = IF res.ok THEN "json" ELSE AfterCatalogFetch(res)]
               /\ ret' = IF ~res.ok /\ AfterCatalogFetch(res) = "done"
                             THEN [ret EXCEPT ![t] = res] ELSE ret
               /\ UNCHANGED cacheVars

\* a plausible slip: every error status is taken for an expired session
NeedsReauth_AnyError(response) == ~response.transport /\ response.status >= 400

\* api.rs:60-64  `send().await?` returns a transport error; of the responses
\* only the one with status 401 takes the else branch
NeedsReauth(response) == ~response.transport /\ response.status = UNAUTHORIZED

\* api.rs:60-65  the first response arrives
QuerySend1(t) ==
    /\ qpc[t] = "send1"
    /\ \E response \in SendGet :
        IF ~NeedsReauth(response)
            THEN /\ QueryFinish(t, SendResult(response, "data"))
                 /\ UNCHANGED hsSent
            ELSE \* reauth(false)
                 IF reauth_skipped(FALSE, now - last_auth)
                    THEN /\ qpc' = [qpc EXCEPT ![t] = "send2"]
                         /\ sends' = [sends EXCEPT ![t] = @ + 1]
                         /\ UNCHANGED <<handshakes, hsSent, pc, ret, cacheVars>>
                    ELSE /\ qpc' = [qpc EXCEPT ![t] = "reauth"]
                         /\ handshakes' = [handshakes EXCEPT ![t] = @ + 1]
                         /\ hsSent' = [hsSent EXCEPT ![t] = now]
                         /\ UNCHANGED <<sends, pc, ret, cacheVars>>
    /\ UNCHANGED <<histVars, envVars, clientVars, catVars, sawExpire, dbTaskVars, op, arg, fetches>>

\* a plausible slip: the result of reauth is dropped instead of propagated
AfterReauth_Ignored(r) == "send2"

\* api.rs:65  `self.reauth(false).await?;`: where query goes once reauth gave r
AfterReauth(r) == IF r.ok THEN "send2" ELSE "none"

\* api.rs:49-56, 65-66  the handshake completes; on success the GET is sent again
QueryReauth(t) ==
    /\ qpc[t] = "reauth"
    /\ \E response \in SendPost :
        LET r == SendResult(response, "login") IN
        /\ sessionValid' = (sessionValid \/ r.ok)
        /\ lastHsSent' = IF r.ok THEN hsSent[t] ELSE lastHsSent
        /\ IF AfterReauth(r) = "send2"
              THEN /\ qpc' = [qpc EXCEPT ![t] = "send2"]
                   /\ sends' = [sends EXCEPT ![t] = @ + 1]
                   /\ UNCHANGED <<pc, ret, cacheVars, handshakes>>
              ELSE QueryFinish(t, r)
    /\ hsSent' = [hsSent EXCEPT ![t] = 0]
    /\ UNCHANGED <<histVars, now, ticks, credsValid, client, last_auth, built, catVars,
                   sawExpire, dbTaskVars, op, arg, fetches>>

\* api.rs:66  the second response arrives
QuerySend2(t) ==
    /\ qpc[t] = "send2"
    /\ \E response \in SendGet : QueryFinish(t, SendResult(response, "data"))
    /\ UNCHANGED <<histVars, envVars, clientVars, catVars, hsSent,
                   sawExpire, dbTaskVars, op, arg, fetches>>

(***************************************************************************)
(* PerturbationCache::get_or_fetch                                         *)
(***************************************************************************)
\* perturbation.rs:25-36  lock, get, clone, unlock; a fresh entry is returned,
\* anything else enters fetch -> query
GetOrFetchStart(t, id) ==
    /\ pc[t] = "init"
    /\ client = "ready"
    /\ calls < MaxCalls
    /\ mutex = 0
    /\ calls' = calls + 1
    /\ op' = [op EXCEPT ![t] = "get"]
    /\ arg' = [arg EXCEPT ![t] = id]
    /\ IF CacheHit(id)
          THEN /\ pc' = [pc EXCEPT ![t] = "done"]
               /\ ret' = [ret EXCEPT ![t] = Ok(entries[id].data)]
               /\ UNCHANGED <<fetches, queryVars, mutex>>
          ELSE /\ pc' = [pc EXCEPT ![t] = "query"]
               /\ fetches' = [fetches EXCEPT ![t] = @ + 1]
               /\ mutex' = GuardDuringFetch(t)
               /\ QueryCall(t)
               /\ UNCHANGED ret
    /\ entries' = AfterLookup(entries, id)
    /\ UNCHANGED <<held, envVars, clientVars, catVars, dbTaskVars>>

\* perturbation.rs:52-53, 36-43  the body arrives (or fails to); the payload is
\* inserted with Instant::now() and returned
GetOrFetchText(t) ==
    /\ pc[t] = "text"
    /\ \E fail \in BOOLEAN, v \in Versions :
        LET res == IF fail THEN Err("body", 0, "data")
                           ELSE Ok([id |-> arg[t], ver |-> v]) IN
        /\ res.ok => mutex = 0
        /\ entries' = AfterFetch(entries, arg[t], res)
        /\ ret' = [ret EXCEPT ![t] = res]
    /\ mutex' = IF mutex = t THEN 0 ELSE mutex
    /\ pc' = [pc EXCEPT ![t] = "done"]
    /\ UNCHANGED <<histVars, envVars, clientVars, catVars, queryVars, dbTaskVars, op, arg, fetches>>

(***************************************************************************)
(* SatelliteDatabase::update                                               *)
(***************************************************************************)
\* satellites.rs:78-81, 146-147  update enters fetch -> query
UpdateStart(t) ==
    /\ pc[t] = "init"
    /\ client = "ready"
    /\ calls < MaxCalls
    /\ calls' = calls + 1
    /\ op' = [op EXCEPT ![t] = "update"]
    /\ pc' = [pc EXCEPT ![t] = "query"]
    /\ QueryCall(t)
    /\ UNCHANGED <<held, envVars, clientVars, cacheVars, catVars, dbTaskVars, arg, fetches, ret>>

\* satellites.rs:147, 81  the body arrives and is deserialized; `?` returns
\* the error, otherwise update goes on to take the write lock
UpdateJson(t) ==
    /\ pc[t] = "json"
    /\ \E fail \in BOOLEAN, wire \in WireCatalogs :
        LET parsed == DeserializeCatalog(wire)
            res == IF fail THEN Err("body", 0, "data")
                   ELSE IF ~parsed.ok THEN Err("decode", 0, "data")
                   ELSE Ok(NoData)
        IN /\ pc' = [pc EXCEPT ![t] = AfterCatalogFetch(res)]
           /\ ret' = IF AfterCatalogFetch(res) = "done" THEN [ret EXCEPT ![t] = res] ELSE ret
           /\ satellites' = [satellites EXCEPT ![t] = IF res.ok THEN parsed.sats ELSE <<>>]
    /\ UNCHANGED <<histVars, envVars, clientVars, cacheVars, catVars, queryVars,
                   query, allowed, matches, seen, found, op, arg, fetches>>

\* satellites.rs:85-88  the write lock is granted and the map is replaced
UpdateIngest(t) ==
    /\ pc[t] = "ingest"
    /\ CanWrite
    /\ writer' = t
    /\ sat_entries' = Collect(satellites[t])
    /\ published' = published \cup {Collect(satellites[t])}
    /\ satellites' = [satellites EXCEPT ![t] = <<>>]
    /\ pc' = [pc EXCEPT ![t] = "written"]
    /\ UNCHANGED <<histVars, envVars, clientVars, cacheVars, readers, fuzzy, queryVars,
                   query, allowed, matches, seen, found, op, arg, fetches, ret>>

\* satellites.rs:90-91  Ok(()) is returned and the guard dropped
UpdateReturn(t) ==
    /\ pc[t] = "written"
    /\ writer' = IF writer = t THEN 0 ELSE writer
    /\ pc' = [pc EXCEPT ![t] = "done"]
    /\ ret' = [ret EXCEPT ![t] = Ok(NoData)]
    /\ UNCHANGED <<histVars, envVars, clientVars, cacheVars, sat_entries, readers, published, fuzzy,
                   queryVars, dbTaskVars, op, arg, fetches>>

(***************************************************************************)
(* SatelliteDatabase::search                                               *)
(***************************************************************************)
\* satellites.rs:93-110  the length guard, the read lock, the exact-id path
SearchStart(t, q, al) ==
    /\ pc[t] = "init"
    /\ client = "ready"
    /\ calls < MaxCalls
    /\ calls' = calls + 1
    /\ op' = [op EXCEPT ![t] = "search"]
    /\ query' = [query EXCEPT ![t] = q]
    /\ allowed' = [allowed EXCEPT ![t] = al]
    /\ IF StrLen(q) <= SHORT_QUERY
          THEN /\ pc' = [pc EXCEPT ![t] = "done"]
               /\ found' = [found EXCEPT ![t] = <<>>]
               /\ UNCHANGED readers
          ELSE /\ CanRead
               /\ IF ParseUsize(q) >= 0 /\ ParseUsize(q) \in DOMAIN sat_entries
                     THEN /\ pc' = [pc EXCEPT ![t] = "done"]
                          /\ found' = [found EXCEPT ![t] = <<sat_entries[ParseUsize(q)]>>]
                          /\ UNCHANGED readers
                     ELSE /\ pc' = [pc EXCEPT ![t] = "scan"]
                          /\ readers' = readers \cup {t}
                          /\ UNCHANGED found
    /\ held' = [held EXCEPT ![t] = IF StrLen(q) <= SHORT_QUERY THEN EmptyMap ELSE sat_entries]
    /\ UNCHANGED <<envVars, clientVars, cacheVars, sat_entries, writer, published, fuzzy,
                   queryVars, matches, seen, satellites, arg, fetches, ret>>

\* satellites.rs:113-133  entries.values() yields one more object, which is
\* filtered and scored
SearchScan(t) ==
    /\ pc[t] = "scan"
    /\ \E k \in DOMAIN sat_entries \ DOMAIN seen[t] :
        LET s == sat_entries[k] IN
        /\ seen' = [seen EXCEPT ![t] = Insert(@, k, s)]
        /\ matches' = [matches EXCEPT ![t] =
              IF PassesFilter(s, query[t], allowed[t])
                  THEN Append(@, [score |-> best_match(query[t], s.object_name).score,
                                  satellite |-> s])
                  ELSE @]
    /\ UNCHANGED <<histVars, envVars, clientVars, cacheVars, catVars, queryVars,
                   query, allowed, found, satellites, taskVars>>

\* satellites.rs:135-144  the iterator is exhausted: sort, truncate, return
\* (the read guard is dropped)
SearchFinish(t) ==
    /\ pc[t] = "scan"
    /\ DOMAIN sat_entries \subseteq DOMAIN seen[t]
    /\ found' = [found EXCEPT ![t] = Rank(Elements(matches[t]))]
    /\ matches' = [matches EXCEPT ![t] = <<>>]
    /\ readers' = readers \ {t}
    /\ held' = [held EXCEPT ![t] = EmptyMap]
    /\ pc' = [pc EXCEPT ![t] = "done"]
    /\ UNCHANGED <<calls, envVars, clientVars, cacheVars, sat_entries, writer, published, fuzzy,
                   queryVars, query, allowed, seen, satellites, op, arg, fetches, ret>>

\* satellites.rs:93-144  search as one step: it has no await, and between
\* taking the read lock and returning it sees one map
Search(t, q, al) ==
    /\ pc[t] = "init"
    /\ client = "ready"
    /\ calls < MaxCalls
    /\ StrLen(q) > SHORT_QUERY => CanRead
    /\ calls' = calls + 1
    /\ op' = [op EXCEPT ![t] = "search"]
    /\ query' = [query EXCEPT ![t] = q]
    /\ allowed' = [allowed EXCEPT ![t] = al]
    /\ found' = [found EXCEPT ![t] = search(sat_entries, q, al)]
    /\ pc' = [pc EXCEPT ![t] = "done"]
    /\ UNCHANGED <<held, envVars, clientVars, cacheVars, catVars, queryVars, matches, seen,
                   satellites, arg, fetches, ret>>

(***************************************************************************)
(* A task whose call has returned handles the next request.                *)
(***************************************************************************)
Again(t) ==
    /\ pc[t] = "done"
    /\ calls < MaxCalls
    /\ pc' = [pc EXCEPT ![t] = "init"]
    /\ op' = [op EXCEPT ![t] = "none"]
    /\ arg' = [arg EXCEPT ![t] = 0]
    /\ fetches' = [fetches EXCEPT ![t] = 0]
    /\ ret' = [ret EXCEPT ![t] = NoRet]
    /\ sends' = [sends EXCEPT ![t] = 0]
    /\ handshakes' = [handshakes EXCEPT ![t] = 0]
    /\ sawExpire' = [sawExpire EXCEPT ![t] = FALSE]
    /\ query' = [query EXCEPT ![t] = <<>>]
    /\ allowed' = [allowed EXCEPT ![t] = {}]
    /\ seen' = [seen EXCEPT ![t] = EmptyMap]
    /\ found' = [found EXCEPT ![t] = <<>>]
    /\ UNCHANGED <<envVars, clientVars, cacheVars, catVars, qpc, hsSent, matches,
                   satellites, histVars>>

(***************************************************************************)
(* Properties of the cache and of the session client, checked under Spec.  *)
(***************************************************************************)
\* task u has a get_or_fetch(id) in progress
InFlight(u, id) == op[u] = "get" /\ arg[u] = id /\ pc[u] \in {"query", "text"}

\* in this step task t calls get_or_fetch(id)
Calls(t, id) == pc[t] = "init" /\ pc'[t] # "init" /\ op'[t] = "get" /\ arg'[t] = id

\* the cache holds an entry for id that is younger than four hours
HoldsFresh(id) == id \in DOMAIN entries /\ now - entries[id].fetch_time < 4 * 3600

\* C1 (cache hit): a get_or_fetch(id) called while the cache holds an entry
\* for id younger than four hours returns the stored payload at once, makes
\* no remote call (no fetch, no GET, no handshake) and leaves the map as it is.
C1_CacheHit ==
    [][\A t \in Tasks, id \in Ids :
        (Calls(t, id) /\ HoldsFresh(id)) =>
            /\ pc'[t] = "done"
            /\ ret'[t] = Ok(entries[id].data)
            /\ fetches'[t] = 0 /\ sends'[t] = 0 /\ handshakes'[t] = 0
            /\ qpc'[t] = "none"
            /\ entries' = entries]_vars

\* a call was answered from an entry fetched earlier, without a remote call
C1_Witness ==
    \E t \in Tasks :
        /\ op[t] = "get" /\ pc[t] = "done" /\ ret[t].ok
        /\ fetches[t] = 0 /\ sends[t] = 0
        /\ arg[t] \in DOMAIN entries
        /\ entries[arg[t]].data = ret[t].data
        /\ entries[arg[t]].fetch_time < now

\* C2 (cache miss): a get_or_fetch(id) called with no other call for id in
\* flight and no entry younger than four hours returns nothing at once but
\* enters exactly one fetch; no call ever makes more than one; and a call
\* whose fetch succeeds returns the fetched payload for its id and leaves
\* entries[id] = (the instant of completion, that payload).
C2_CacheMiss ==
    [][\A t \in Tasks, id \in Ids :
        /\ (Calls(t, id) /\ ~HoldsFresh(id) /\ \A u \in Tasks : ~InFlight(u, id)) =>
              /\ pc'[t] = "query" /\ qpc'[t] = "send1"
              /\ fetches'[t] = 1
              /\ ret'[t] = NoRet
        /\ fetches'[t] <= 1
        /\ (InFlight(t, id) /\ pc'[t] = "done" /\ ret'[t].ok) =>
              /\ fetches'[t] = 1
              /\ ret'[t].data.id = id
              /\ id \in DOMAIN entries'
              /\ entries'[id] = [fetch_time |-> now', data |-> ret'[t].data]]_vars

\* two calls for one id each made one fetch and got the same payload, and
\* the entry carries the instant of the later one, four hours after the start
C2_Witness ==
    \E t, u \in Tasks :
        /\ t # u /\ op[t] = "get" /\ op[u] = "get" /\ arg[t] = arg[u]
        /\ pc[t] = "done" /\ ret[t].ok /\ fetches[t] = 1
        /\ pc[u] = "done" /\ ret[u].ok /\ fetches[u] = 1
        /\ ret[u].data = ret[t].data
        /\ now >= 4 * 3600
        /\ arg[t] \in DOMAIN entries
        /\ entries[arg[t]] = [fetch_time |-> now, data |-> ret[t].data]

\* C3 (failed fetch): a get_or_fetch that ends in an error leaves the whole
\* entry map as it was in the step that fails, and a later call for an id
\* whose call failed, made while the map holds no entry younger than four
\* hours for it, starts a new fetch.
C3_FailedFetchKeepsCache ==
    [][\A t \in Tasks :
        /\ (op[t] = "get" /\ pc[t] \in {"query", "text"} /\ pc'[t] = "done" /\ ~ret'[t].ok) =>
              entries' = entries
        /\ \A u \in Tasks :
              (/\ op[t] = "get" /\ pc[t] = "done" /\ ~ret[t].ok
               /\ Calls(u, arg[t]) /\ ~HoldsFresh(arg[t])) =>
                  /\ fetches'[u] = 1 /\ qpc'[u] = "send1"]_vars

\* a fetch failed while the map held a stale entry for its id, which is still there
C3_Witness ==
    \E t \in Tasks :
        /\ op[t] = "get" /\ pc[t] = "done" /\ ~ret[t].ok /\ fetches[t] = 1
        /\ arg[t] \in DOMAIN entries
        /\ now - entries[arg[t]].fetch_time >= 4 * 3600

\* C4 (request coalescing): no two fetches for the same id are in flight at once.
C4_SingleFlight ==
    \A t, u \in Tasks, id \in Ids :
        (t # u /\ InFlight(t, id)) => ~InFlight(u, id)

\* C5 (renew and retry): a query re-sends its request only after it made
\* exactly one handshake, however long ago the previous handshake was.
C5_RenewThenRetry ==
    \A t \in Tasks : qpc[t] = "send2" => (sends[t] = 2 /\ handshakes[t] = 1)

\* C6 (transparent renewal): with valid credentials, a query whose renewal
\* was not followed by a new expiry is never answered "unauthorized": its
\* caller does not see the expiry.
C6_TransparentRenewal ==
    \A t \in Tasks :
        (pc[t] = "done" /\ credsValid /\ ~sawExpire[t]) =>
            ret[t] # Err("status", 401, "data")

\* C7 (bounded retry): a query in progress has sent its request at most
\* twice and made at most one handshake; the handshake is made only after
\* the first attempt; the request is sent again after a handshake only if
\* the handshake succeeded, otherwise the query returns the handshake's error
\* having sent once; and whatever answers the second attempt ends the query,
\* with an error unless the answer is a success status.
C7_BoundedRetry ==
    /\ [](\A t \in Tasks : sends[t] <= 2 /\ handshakes[t] <= 1)
    /\ [][\A t \in Tasks :
            /\ (qpc'[t] = "reauth" /\ qpc[t] # "reauth") => (qpc[t] = "send1" /\ sends[t] = 1)
            /\ (qpc[t] = "reauth" /\ qpc'[t] = "send2") => sessionValid'
            /\ (qpc[t] = "reauth" /\ qpc'[t] # "reauth" /\ ~sessionValid') =>
                  /\ qpc'[t] = "none" /\ sends[t] = 1
                  /\ pc'[t] = "done" /\ ~ret'[t].ok /\ ret'[t].url = "login"
            /\ (qpc[t] = "send2" /\ qpc'[t] # "send2") =>
                  /\ qpc'[t] = "none"
                  /\ sends[t] = 2
                  /\ ~sessionValid => pc'[t] = "done"
                  /\ pc'[t] = "done" => ~ret'[t].ok]_vars

\* a query returned the error of its failed handshake, and another returned
\* the second "unauthorized"
C7_Witness ==
    \E t, u \in Tasks :
        /\ pc[t] = "done" /\ ret[t] = Err("transport", 0, "login")
        /\ pc[u] = "done" /\ ret[u] = Err("status", 401, "data")

\* C8 (last-authenticated timestamp): once the client is built, last_auth is
\* the instant of the latest successful handshake.
C8_LastAuthIsLatestHandshake ==
    client = "ready" => last_auth = lastHsSent

\* C17 (construction handshake): from_env goes from its start to awaiting
\* the handshake, never past it; it ends only through the handshake, with a
\* client when the handshake succeeded and otherwise with the handshake's
\* error and no client; and nothing is called on a client that was not built.
C17_ConstructionHandshake ==
    /\ [](/\ client \in {"unbuilt", "auth"} <=> built = NoRet
          /\ client = "ready" <=> built.ok
          /\ client = "failed" =>
                /\ built \in {Err("transport", 0, "login"), Err("status", 401, "login")}
                /\ built.kind = "status" => ~credsValid
          /\ client # "ready" => \A t \in Tasks : pc[t] = "init" /\ qpc[t] = "none")
    /\ [][/\ client = "unbuilt" => client' \in {"unbuilt", "auth"}
          /\ (client = "unbuilt" /\ client' = "auth") => last_auth' = now
          /\ (client = "auth" /\ client' = "ready") => (credsValid /\ sessionValid')
          /\ (client = "auth" /\ ~credsValid) => client' \in {"auth", "failed"}
          /\ client \in {"ready", "failed"} => (client' = client /\ built' = built)]_vars

\* construction failed on the error status that answered its handshake
C17_Witness ==
    /\ client = "failed"
    /\ built = Err("status", 401, "login")
    /\ ~credsValid

\* C18 (non-auth failures are not retried): a query whose first attempt is
\* answered while the session is valid (so not with "unauthorized") returns
\* in that step; and a query that returns from its first attempt has sent
\* once and made no handshake, and hands the response on or returns the
\* transport error or the error status of that attempt.
C18_NoRetryOnOtherFailures ==
    [][\A t \in Tasks :
          (qpc[t] = "send1" /\ qpc'[t] # "send1") =>
              /\ sessionValid => qpc'[t] = "none"
              /\ qpc'[t] = "none" =>
                    /\ sends'[t] = 1 /\ handshakes[t] = 0 /\ handshakes'[t] = 0
                    /\ hsSent'[t] = 0 /\ lastHsSent' = lastHsSent
                    /\ \/ pc'[t] \in {"text", "json"}
                       \/ /\ pc'[t] = "done"
                          /\ ret'[t] \in {Err("transport", 0, "data"), Err("status", 500, "data")}]_vars

\* one query returned the server error that answered its only attempt,
\* another the transport failure of its only attempt
C18_Witness ==
    \E t, u \in Tasks :
        /\ pc[t] = "done" /\ sends[t] = 1 /\ ret[t] = Err("status", 500, "data")
        /\ pc[u] = "done" /\ sends[u] = 1 /\ ret[u] = Err("transport", 0, "data")

\* C19 (no partial or foreign entries): every entry holds a payload fetched
\* for its own id and an instant that has been reached; and an entry appears
\* or changes only in the step in which a get_or_fetch for that id receives
\* its payload, and is then the pair of the instant of that step and that
\* payload, the one the call returns.
C19_WholeEntries ==
    /\ [](\A id \in DOMAIN entries :
              /\ id \in Ids
              /\ entries[id].data.id = id
              /\ entries[id].data.ver \in Versions
              /\ entries[id].fetch_time <= now)
    /\ [][\A id \in DOMAIN entries' :
              (id \notin DOMAIN entries \/ entries'[id] # entries[id]) =>
                  \E t \in Tasks :
                      /\ op[t] = "get" /\ arg[t] = id /\ pc[t] = "text"
                      /\ pc'[t] = "done" /\ ret'[t].ok
                      /\ entries'[id] = [fetch_time |-> now, data |-> ret'[t].data]]_vars

\* two fetches for one id returned different payloads four hours apart, and
\* the entry is the later instant with one of the two payloads
C19_Witness ==
    \E t, u \in Tasks :
        /\ op[t] = "get" /\ op[u] = "get" /\ arg[t] = arg[u]
        /\ pc[t] = "done" /\ ret[t].ok /\ fetches[t] = 1
        /\ pc[u] = "done" /\ ret[u].ok /\ fetches[u] = 1
        /\ ret[t].data # ret[u].data
        /\ entries[arg[t]] = [fetch_time |-> 4 * 3600, data |-> ret[u].data]

\* C20 (cache monotonicity): an entry that is present stays present, and its
\* instant never decreases; an entry younger than four hours stays so in
\* every step in which the clock stands still.
C20_Monotonic ==
    [][\A id \in DOMAIN entries :
          /\ id \in DOMAIN entries'
          /\ entries'[id].fetch_time >= entries[id].fetch_time
          /\ (HoldsFresh(id) /\ now' = now) =>
                (now' - entries'[id].fetch_time < 4 * 3600)]_vars

\* a call found the entry of its id four hours old and is fetching it again
\* while the entry is still in the map
C20_Witness ==
    \E t \in Tasks :
        /\ op[t] = "get" /\ pc[t] \in {"query", "text"}
        /\ arg[t] \in DOMAIN entries
        /\ now - entries[arg[t]].fetch_time >= 4 * 3600

(***************************************************************************)
(* Properties of the catalog, checked under SpecCatalog.                   *)
(***************************************************************************)
\* the objects of map m that the fuzzy path keeps for query q and types al
Kept(m, q, al) == {m[k] : k \in {x \in DOMAIN m : PassesFilter(m[x], q, al)}}

\* C9 (atomic refresh): a search that is evaluating holds the read lock with
\* no writer, the map it reads is the one published when it took the lock
\* and stays that map, and everything it has read comes from it; a finished
\* search has read one published map completely (fuzzy path) or taken its
\* one object from a published map (exact-id path), so its result is that of
\* one complete snapshot; and an update holding the write lock has no reader.
C9_AtomicRefresh ==
    \A t \in Tasks :
        /\ pc[t] = "scan" =>
              /\ t \in readers /\ writer = 0
              /\ held[t] \in published
              /\ sat_entries = held[t]
              /\ \A k \in DOMAIN seen[t] : k \in DOMAIN held[t] /\ seen[t][k] = held[t][k]
        /\ pc[t] = "written" => (writer = t /\ readers = {})
        /\ (op[t] = "search" /\ pc[t] = "done" /\ Len(query[t]) > 3) =>
              \/ /\ seen[t] \in published
                 /\ {found[t][i] : i \in DOMAIN found[t]} = Kept(seen[t], query[t], allowed[t])
              \/ /\ seen[t] = EmptyMap /\ Len(found[t]) = 1
                 /\ \E snap \in published :
                       /\ ParseUsize(query[t]) \in DOMAIN snap
                       /\ found[t][1] = snap[ParseUsize(query[t])]

\* a search has read one of the two objects of the published snapshot while
\* an update that fetched a different catalog waits for the write lock
C9_Witness ==
    \E t, u \in Tasks :
        /\ pc[t] = "scan" /\ seen[t] # EmptyMap
        /\ DOMAIN seen[t] # DOMAIN sat_entries
        /\ pc[u] = "ingest"
        /\ Collect(satellites[u]) # sat_entries

\* C10 (failed refresh): an update returns from its fetch (the query or the
\* reading of the body) only with an error, and then the published map is
\* the one from before the step; a query that fails ends the update; the
\* update goes on to ingest only the objects of a payload that deserialized
\* as a whole; and the map changes only by an update ingesting such a list.
C10_FailedRefreshKeepsSnapshot ==
    [][/\ \A t \in Tasks :
            (op[t] = "update" /\ pc[t] \in {"query", "json"}) =>
                /\ pc'[t] = "done" =>
                      (~ret'[t].ok /\ sat_entries' = sat_entries /\ published' = published)
                /\ (pc[t] = "query" /\ pc'[t] \notin {"query", "json"}) =>
                      (pc'[t] = "done" /\ ret'[t].url \in {"data", "login"})
                /\ (pc[t] = "json" /\ pc'[t] # "json") =>
                      \/ pc'[t] = "done" /\ ret'[t].kind \in {"body", "decode"}
                      \/ /\ pc'[t] = "ingest"
                         /\ \E w \in WireCatalogs :
                               /\ \A i \in DOMAIN w : DeserializeSatellite(w[i]).ok
                               /\ satellites'[t] = DeserializeCatalog(w).sats
       /\ sat_entries' # sat_entries =>
            \E t \in Tasks : /\ pc[t] = "ingest" /\ pc'[t] = "written"
                             /\ satellites[t] # <<>>
                             /\ sat_entries' = Collect(satellites[t])]_vars

\* an update failed on a payload with one malformed object while a snapshot
\* published earlier is still in place
C10_Witness ==
    \E t \in Tasks :
        /\ op[t] = "update" /\ pc[t] = "done"
        /\ ret[t] = Err("decode", 0, "data")
        /\ sat_entries # EmptyMap
        /\ sat_entries \in published

(***************************************************************************)
(* Properties of search, checked under SpecSearch.                         *)
(***************************************************************************)
\* task t has returned from search
Searched(t) == op[t] = "search" /\ pc[t] = "done"

\* C11 (minimum query length): a search whose query has fewer than four
\* characters returns the empty sequence, whatever the catalog and the
\* allowed types.
C11_MinimumQueryLength ==
    \A t \in Tasks : (Searched(t) /\ Len(query[t]) < 4) => found[t] = <<>>

\* C12 (exact-id fast path): a search whose query has at least four
\* characters and parses as the identifier of an object of the catalog returns
\* that object alone, whatever the allowed types.
C12_ExactIdFastPath ==
    \A t \in Tasks :
        (/\ Searched(t) /\ Len(query[t]) >= 4
         /\ ParseUsize(query[t]) \in DOMAIN sat_entries)
        => found[t] = <<sat_entries[ParseUsize(query[t])]>>

\* one search found a debris object by its identifier with only payloads
\* allowed, another found it with no type allowed
C12_Witness ==
    \E t, u \in Tasks :
        /\ Searched(t) /\ query[t] = Q1006 /\ allowed[t] = {"Payload"}
        /\ Len(found[t]) = 1 /\ found[t][1].id = 1006 /\ found[t][1].object_type = "Debris"
        /\ Searched(u) /\ query[u] = Q1006 /\ allowed[u] = {}
        /\ found[u] = found[t]

\* task t has returned from a search that took the fuzzy path
FuzzyPath(t) ==
    /\ Searched(t)
    /\ StrLen(query[t]) > 3
    /\ ParseUsize(query[t]) \notin DOMAIN sat_entries

\* the score of object s against the query of task t
ScoreOf(t, s) == fuzzy[<<query[t], s.object_name>>].score

\* C13 (fuzzy ranking order): in the result of a fuzzy search an object comes
\* before another only with a greater score, or with the same score and a
\* greater identifier; and two searches of one catalog with the same query
\* and allowed types return the same sequence.  The objects of one map have
\* distinct identifiers (each is stored under its own), which is what leaves
\* the sort by id one outcome for every order the map is iterated in.
C13_RankingOrder ==
    /\ \A k \in DOMAIN sat_entries : sat_entries[k].id = k
    /\ \A t \in Tasks :
          FuzzyPath(t) =>
              \A i, j \in DOMAIN found[t] :
                  i < j => \/ ScoreOf(t, found[t][i]) > ScoreOf(t, found[t][j])
                           \/ /\ ScoreOf(t, found[t][i]) = ScoreOf(t, found[t][j])
                              /\ found[t][i].id > found[t][j].id
    /\ \A t, u \in Tasks :
          (Searched(t) /\ Searched(u) /\ query[t] = query[u] /\ allowed[t] = allowed[u])
          => found[t] = found[u]

\* a fuzzy search returned two objects with the same score, and an object
\* with a smaller identifier ahead of one with a greater identifier and a
\* smaller score
C13_Witness ==
    \E t \in Tasks :
        /\ FuzzyPath(t)
        /\ \E i, j \in DOMAIN found[t] :
              i < j /\ ScoreOf(t, found[t][i]) = ScoreOf(t, found[t][j])
        /\ \E i, j \in DOMAIN found[t] :
              /\ i < j /\ found[t][i].id < found[t][j].id
              /\ ScoreOf(t, found[t][i]) > ScoreOf(t, found[t][j])

\* object a ranks above object b for the query of task t
RanksAbove(t, a, b) ==
    \/ ScoreOf(t, a) > ScoreOf(t, b)
    \/ ScoreOf(t, a) = ScoreOf(t, b) /\ a.id > b.id

\* C14 (result limit): no search returns more than 20 objects; a fuzzy search
\* returns all the objects that pass the filter when they are 20 or fewer,
\* and otherwise 20 of them, none of which ranks below an omitted one.
C14_ResultLimit ==
    \A t \in Tasks :
        /\ Searched(t) => Len(found[t]) <= 20
        /\ FuzzyPath(t) =>
              LET passing == Kept(sat_entries, query[t], allowed[t])
                  returned == {found[t][i] : i \in DOMAIN found[t]}
              IN /\ returned \subseteq passing
                 /\ Cardinality(returned) = Len(found[t])
                 /\ Len(found[t]) = IF Cardinality(passing) > 20 THEN 20
                                                                ELSE Cardinality(passing)
                 /\ \A a \in returned, b \in passing \ returned : RanksAbove(t, a, b)

\* more than 20 objects passed the filter of a fuzzy search, which returned 20
C14_Witness ==
    \E t \in Tasks :
        /\ FuzzyPath(t)
        /\ Cardinality(Kept(sat_entries, query[t], allowed[t])) > 20
        /\ Len(found[t]) = 20

\* C15 (fuzzy filter): every object a fuzzy search returns is an object of
\* the catalog whose type is among the allowed types and whose name has a
\* score against the query that is not negative; with no type allowed the
\* result is empty.
C15_FuzzyFilter ==
    \A t \in Tasks :
        FuzzyPath(t) =>
            /\ \A i \in DOMAIN found[t] :
                  LET s == found[t][i] IN
                  /\ s.id \in DOMAIN sat_entries /\ sat_entries[s.id] = s
                  /\ s.object_type \in allowed[t]
                  /\ fuzzy[<<query[t], s.object_name>>].some
                  /\ fuzzy[<<query[t], s.object_name>>].score >= 0
            /\ allowed[t] = {} => found[t] = <<>>

\* a numeric query that is no identifier of the catalog found a debris object
\* by its name, and found nothing with only payloads allowed
C15_Witness ==
    \E t, u \in Tasks :
        /\ FuzzyPath(t) /\ query[t] = Q2251 /\ allowed[t] = ObjectTypes
        /\ Len(found[t]) = 1 /\ found[t][1].object_name = "COSMOS 2251 DEB"
        /\ FuzzyPath(u) /\ query[u] = Q2251 /\ allowed[u] = {"Payload"}
        /\ found[u] = <<>>

(***************************************************************************)
(* Properties of the locks, checked under SpecAll.                         *)
(***************************************************************************)
\* task t is suspended awaiting the remote service: in query (its sends and
\* its handshake) or reading the body of the response
AwaitsRemote(t) == pc[t] \in {"query", "text", "json"}

\* C16 (no lock across a remote call): a task that awaits the remote service
\* holds neither the cache mutex nor the catalog lock; the cache mutex is
\* free in every state, the write lock is held only by an update between its
\* assignment and its return, and the read lock only by a search that is
\* evaluating, none of which awaits anything.
C16_NoLockAcrossRemoteCall ==
    /\ \A t \in Tasks :
          /\ qpc[t] # "none" => pc[t] = "query"
          /\ AwaitsRemote(t) => (mutex # t /\ writer # t /\ t \notin readers)
    /\ mutex = 0
    /\ writer # 0 => pc[writer] = "written"
    /\ \A r \in readers : pc[r] = "scan"

\* an update awaits the handshake of its query and a get_or_fetch awaits the
\* body of its response while every lock is free
C16_Witness ==
    \E t, u \in Tasks :
        /\ op[t] = "update" /\ qpc[t] = "reauth"
        /\ op[u] = "get" /\ pc[u] = "text"
        /\ mutex = 0 /\ writer = 0 /\ readers = {}

(***************************************************************************)
(* Initial state and specifications.                                       *)
(***************************************************************************)
InitCommon ==
    /\ now = 0
    /\ ticks = 0
    /\ sessionValid = FALSE
    /\ credsValid \in BOOLEAN
    /\ client = "unbuilt"
    /\ last_auth = 0
    /\ lastHsSent = 0
    /\ built = NoRet
    /\ entries = EmptyMap
    /\ mutex = 0
    /\ sat_entries = EmptyMap
    /\ readers = {}
    /\ writer = 0
    /\ published = {EmptyMap}
    /\ calls = 0
    /\ held = [t \in Tasks |-> EmptyMap]
    /\ pc = [t \in Tasks |-> "init"]
    /\ op = [t \in Tasks |-> "none"]
    /\ arg = [t \in Tasks |-> 0]
    /\ qpc = [t \in Tasks |-> "none"]
    /\ sends = [t \in Tasks |-> 0]
    /\ handshakes = [t \in Tasks |-> 0]
    /\ hsSent = [t \in Tasks |-> 0]
    /\ fetches = [t \in Tasks |-> 0]
    /\ sawExpire = [t \in Tasks |-> FALSE]
    /\ ret = [t \in Tasks |-> NoRet]
    /\ query = [t \in Tasks |-> <<>>]
    /\ allowed = [t \in Tasks |-> {}]
    /\ matches = [t \in Tasks |-> <<>>]
    /\ seen = [t \in Tasks |-> EmptyMap]
    /\ found = [t \in Tasks |-> <<>>]
    /\ satellites = [t \in Tasks |-> <<>>]

Init == InitCommon /\ fuzzy = FuzzyA

\* the session client and the cache, with tasks calling get_or_fetch
Next ==
    \/ Tick
    \/ Expire
    \/ FromEnv
    \/ FromEnvHandshake
    \/ \E t \in Tasks : QuerySend1(t)
    \/ \E t \in Tasks : QueryReauth(t)
    \/ \E t \in Tasks : QuerySend2(t)
    \/ \E t \in Tasks, id \in Ids : GetOrFetchStart(t, id)
    \/ \E t \in Tasks : GetOrFetchText(t)

Spec == Init /\ [][Next]_vars

\* the session client and the catalog, with tasks calling update and search,
\* each task one call after the other, while time passes
NextCatalog ==
    \/ Tick
    \/ Expire
    \/ FromEnv
    \/ FromEnvHandshake
    \/ \E t \in Tasks : QuerySend1(t)
    \/ \E t \in Tasks : QueryReauth(t)
    \/ \E t \in Tasks : QuerySend2(t)
    \/ \E t \in Tasks : UpdateStart(t)
    \/ \E t \in Tasks : UpdateJson(t)
    \/ \E t \in Tasks : UpdateIngest(t)
    \/ \E t \in Tasks : UpdateReturn(t)
    \/ \E t \in Tasks, q \in Queries, al \in AllowedSets : SearchStart(t, q, al)
    \/ \E t \in Tasks : SearchScan(t)
    \/ \E t \in Tasks : SearchFinish(t)
    \/ \E t \in Tasks : Again(t)

SpecCatalog == Init /\ [][NextCatalog]_vars

\* the three components together: each task makes one call of get_or_fetch,
\* update or search, while time passes
NextAll ==
    \/ Tick
    \/ Expire
    \/ FromEnv
    \/ FromEnvHandshake
    \/ \E t \in Tasks : QuerySend1(t)
    \/ \E t \in Tasks : QueryReauth(t)
    \/ \E t \in Tasks : QuerySend2(t)
    \/ \E t \in Tasks, id \in Ids : GetOrFetchStart(t, id)
    \/ \E t \in Tasks : GetOrFetchText(t)
    \/ \E t \in Tasks : UpdateStart(t)
    \/ \E t \in Tasks : UpdateJson(t)
    \/ \E t \in Tasks : UpdateIngest(t)
    \/ \E t \in Tasks : UpdateReturn(t)
    \/ \E t \in Tasks, q \in Queries, al \in AllowedSets : SearchStart(t, q, al)
    \/ \E t \in Tasks : SearchScan(t)
    \/ \E t \in Tasks : SearchFinish(t)

SpecAll == Init /\ [][NextAll]_vars

\* search on its own: from_env has returned the client (api.rs:36), one
\* catalog is published, and each task calls search once
InitSearch ==
    /\ now = 0
    /\ ticks = 0
    /\ sessionValid = TRUE
    /\ credsValid = TRUE
    /\ client = "ready"
    /\ last_auth = 0
    /\ lastHsSent = 0
    /\ built = Ok(NoData)
    /\ entries = EmptyMap
    /\ mutex = 0
    /\ \E in \in SearchInputs :
          /\ DeserializeCatalog(in.wire).ok
          /\ sat_entries = Collect(DeserializeCatalog(in.wire).sats)
          /\ published = {EmptyMap, sat_entries}
          /\ fuzzy = in.table
    /\ readers = {}
    /\ writer = 0
    /\ calls = 0
    /\ held = [t \in Tasks |-> EmptyMap]
    /\ pc = [t \in Tasks |-> "init"]
    /\ op = [t \in Tasks |-> "none"]
    /\ arg = [t \in Tasks |-> 0]
    /\ qpc = [t \in Tasks |-> "none"]
    /\ sends = [t \in Tasks |-> 0]
    /\ handshakes = [t \in Tasks |-> 0]
    /\ hsSent = [t \in Tasks |-> 0]
    /\ fetches = [t \in Tasks |-> 0]
    /\ sawExpire = [t \in Tasks |-> FALSE]
    /\ ret = [t \in Tasks |-> NoRet]
    /\ query = [t \in Tasks |-> <<>>]
    /\ allowed = [t \in Tasks |-> {}]
    /\ matches = [t \in Tasks |-> <<>>]
    /\ seen = [t \in Tasks |-> EmptyMap]
    /\ found = [t \in Tasks |-> <<>>]
    /\ satellites = [t \in Tasks |-> <<>>]

NextSearch ==
    \E t \in SearchTasks, q \in SearchQueries, al \in SearchAllowed : Search(t, q, al)

SpecSearch == InitSearch /\ [][NextSearch]_vars

====
